---- MODULE Spec2Model ----
(***************************************************************************)
(* Model of the crawl engine of Dove Search (src/app.py): the persistent   *)
(* crawl_queue and pages tables, the RespectfulCrawler object shared by    *)
(* its crawl_worker threads and by the threads that call                   *)
(* add_url_to_queue / start_crawling / stop_crawling from outside, and     *)
(* simple_search over the pages table.                                     *)
(*                                                                         *)
(* Time is kept as ages: domain_last_access[d] holds the number of clock   *)
(* ticks elapsed since the stored time.time() value (saturated at AgeCap,  *)
(* beyond which no delay of the model distinguishes it), and sleep[t]      *)
(* holds the ticks a time.sleep call still has to wait.  Tick lets one     *)
(* tick (TickSeconds seconds) pass while some thread sleeps or waits for   *)
(* the network, or while no thread runs; the statements between two such   *)
(* waits take no time.  A sleep shorter than a tick (time.sleep(1),        *)
(* time.sleep(0.1)) guarantees no tick.                                    *)
(*                                                                         *)
(* The crawl_queue table is a sequence of rows in insertion order: every   *)
(* insert is stamped datetime.now() under self.lock, so ascending added_at *)
(* is the order of the sequence.                                           *)
(***************************************************************************)
EXTENDS Naturals, Integers, Sequences, FiniteSets, Bags, TLC

\* ------------------------------------------------------------ bounds
MaxWorkers == 2
MaxExtPush == 2
MaxFaults == 3

\* ------------------------------------------------------------ program constants
crawl_delay == 5
MaxRetry == 3
BackoffSeconds == 1
CooldownSeconds == 5

\* ------------------------------------------------------------ the clock
\* one Tick of the model's clock lasts as long as the default crawl delay, the
\* shortest duration the program compares a clock reading with; a duration is
\* kept as the whole ticks it is sure to last
TickSeconds == crawl_delay
Ticks(seconds) == seconds \div TickSeconds

\* ------------------------------------------------------------ the web the crawler sees
NoUrl == "None"
EmptyUrl == ""
URLs == {"a1", "a2", "bad"}
\* urls on which urlparse raises ValueError (such as "http://[")
Malformed == {"bad"}
Domains == {"A"}
PushPriorities == {0, 1}

\* urlparse(url).netloc
netloc(u) == "A"

\* the robots.txt each domain serves when it can be read
RobotsFile(d) == [disallow |-> {"a2"}, delay |-> 10]

\* the <a href> targets of each page, in document order
PageLinks(u) ==
    IF u = "a1" THEN <<"a1", "a2">> ELSE <<"a1">>

Workers == 1..MaxWorkers
Pushers == {0}
Threads == Workers \cup Pushers
NoThread == -1

Max2(a, b) == IF a >= b THEN a ELSE b
AgeCap == Max2(Ticks(crawl_delay), Ticks(RobotsFile("A").delay))
Absent == -1

VARIABLES
    running,             \* self.running
    lock,                \* holder of self.lock, or NoThread
    dbQueue,             \* rows of table crawl_queue, in added_at order
    crawl_queue,         \* self.crawl_queue, the in-memory PriorityQueue (a bag)
    pages,               \* rows of table pages (a set of rows)
    visited_urls,        \* self.visited_urls
    robot_parsers,       \* self.robot_parsers: "unset" or one of RobotsOutcomes per domain
    domain_last_access,  \* self.domain_last_access as an age, Absent if no key
    pc,                  \* position of each thread
    url, priority,       \* locals of crawl_worker
    retry_count,         \* local retry_count of crawl_worker / crawl_page
    links,               \* links still to be pushed by the worker's for loop
    sleep,               \* ticks left of the thread's time.sleep call
    time_passed,         \* local time_passed of crawl_page
    pushUrl, pushPrio,   \* arguments of the running add_url_to_queue call
    fetchAge,            \* ticks since the last requests.get began, per domain
    fetchCount,          \* number of requests.get calls issued per url (capped)
    extPushes,           \* number of external add_url_to_queue calls so far
    faults,              \* number of storage statements that have failed so far
    query, limit,        \* arguments of a simple_search call (query as its tokens)
    page_rows,           \* the rows of table pages as simple_search reads them
    results,             \* the list simple_search returns
    search_pc,           \* "idle", "call" (before the call) or "done" (after it)
    db_read              \* whether the call has executed its SELECT

crawling == <<running, lock, dbQueue, crawl_queue, pages, visited_urls,
              robot_parsers, domain_last_access, pc, url, priority, retry_count,
              links, sleep, time_passed, pushUrl, pushPrio,
              fetchAge, fetchCount, extPushes, faults>>

searching == <<query, limit, page_rows, results, search_pc, db_read>>

vars == <<crawling, searching>>

shared == <<running, lock, dbQueue, crawl_queue, pages, visited_urls,
            robot_parsers, domain_last_access, fetchAge, fetchCount, extPushes,
            faults>>

\* ------------------------------------------------------------ storage operators

HasUrl(q, u) == \E i \in 1..Len(q) : q[i].url = u

CountUrl(q, u) == Cardinality({i \in 1..Len(q) : q[i].url = u})

\* INSERT OR REPLACE: the row of the key is deleted and the new row added
InsertReplacing(q, u, p) ==
    Append(SelectSeq(q, LAMBDA r : r.url # u), [url |-> u, priority |-> p])

\* a plain INSERT, which does not look for the key
InsertNoIgnore(q, u, p) == Append(q, [url |-> u, priority |-> p])

\* INSERT OR IGNORE INTO crawl_queue VALUES (url, priority, now)
InsertOrIgnore(q, u, p) ==
    IF HasUrl(q, u) THEN q ELSE Append(q, [url |-> u, priority |-> p])

\* SELECT url, priority FROM crawl_queue ORDER BY priority, added_at LIMIT 1
SelectFirst(q) ==
    LET i == CHOOSE i \in 1..Len(q) :
                 \A j \in 1..Len(q) :
                     \/ q[i].priority < q[j].priority
                     \/ (q[i].priority = q[j].priority /\ i <= j)
    IN q[i]

\* DELETE FROM crawl_queue WHERE url = ?
DeleteUrl(q, u) == SelectSeq(q, LAMBDA r : r.url # u)

\* an INSERT that does not replace the row of the key
InsertKeepOld(pg, u, k) == pg \cup {[url |-> u, stamp |-> k]}

\* INSERT OR REPLACE INTO pages VALUES (url, ..., now, now); the row's stamp k
\* tells which requests.get of the url the row comes from
InsertOrReplace(pg, u, k) ==
    {r \in pg : r.url # u} \cup {[url |-> u, stamp |-> k]}

\* self.crawl_queue.put((priority, url))
QueuePut(b, p, u) == b (+) SetToBag({<<p, u>>})

\* ------------------------------------------------------------ robots operators

\* a can_fetch that never asks the parser
CanFetchAlways(rp, u) == TRUE

\* what lines 70-78 can leave in the cache: the parser of a robots.txt that
\* was read ("rp"); None after rp.read() raised ("none": no connection, a
\* timeout, bytes that do not decode); or the parser of a robots.txt whose
\* request was answered with an HTTP error status ("denied"): rp.read() catches
\* HTTPError itself and returns, leaving the parser with disallow_all set
\* (401, 403) or never marked as read (5xx)
RobotsOutcomes == {"rp", "none", "denied"}

\* rp.can_fetch("*", url), or True when the parser is None (can_fetch); a
\* parser with disallow_all set, or not marked as read, answers False
CanFetch(rp, u) ==
    IF rp = "rp" THEN u \notin RobotsFile(netloc(u)).disallow ELSE rp # "denied"

\* get_crawl_delay: the robots delay if there is a parser and the delay is truthy
GetCrawlDelay(rp, d) ==
    IF rp = "rp" /\ RobotsFile(d).delay # 0 THEN Ticks(RobotsFile(d).delay)
    ELSE Ticks(crawl_delay)

\* delay_needed - time_passed, when positive
SleepNeeded(delay_needed, passed) ==
    IF passed < delay_needed THEN delay_needed - passed ELSE 0

\* no simple_search call is made
NoSearch ==
    /\ query = <<>>
    /\ limit = 0
    /\ page_rows = <<>>
    /\ results = <<>>
    /\ search_pc = "idle"
    /\ db_read = FALSE

\* the crawler after RespectfulCrawler(conn), the tables empty
CrawlerInit ==
    /\ running = FALSE
    /\ lock = NoThread
    /\ dbQueue = <<>>
    /\ crawl_queue = EmptyBag
    /\ pages = {}
    /\ visited_urls = {}
    /\ robot_parsers = [d \in Domains |-> "unset"]
    /\ domain_last_access = [d \in Domains |-> Absent]
    /\ pc = [t \in Threads |-> "idle"]
    /\ url = [w \in Workers |-> NoUrl]
    /\ priority = [w \in Workers |-> 0]
    /\ retry_count = [w \in Workers |-> 0]
    /\ links = [w \in Workers |-> <<>>]
    /\ sleep = [t \in Threads |-> 0]
    /\ time_passed = [w \in Workers |-> 0]
    /\ pushUrl = [t \in Threads |-> NoUrl]
    /\ pushPrio = [t \in Threads |-> 0]
    /\ fetchAge = [d \in Domains |-> Absent]
    /\ fetchCount = [u \in URLs |-> 0]
    /\ extPushes = 0
    /\ faults = 0

Init == CrawlerInit /\ NoSearch


wlocals == <<url, priority, retry_count, links, time_passed>>
plocals == <<pushUrl, pushPrio>>
ghosts == <<fetchAge, fetchCount>>
env == <<extPushes, faults>>

Active(w) == pc[w] # "idle"

\* the outcomes a storage statement can have: it succeeds, meets a locked
\* database (sqlite3.OperationalError) or fails otherwise
Outcomes == IF faults < MaxFaults THEN {"ok", "locked", "error"} ELSE {"ok"}
Failed(outcome) == faults' = IF outcome = "ok" THEN faults ELSE faults + 1

\* ------------------------------------------------------------ callers from outside

\* start_crawling: set the flag and start a new crawl_worker thread
start_crawling ==
    /\ \E w \in Workers :
          /\ ~Active(w)
          /\ \A v \in Workers : v < w => Active(v)
          /\ pc' = [pc EXCEPT ![w] = "loop"]
    /\ running' = TRUE
    /\ UNCHANGED <<lock, dbQueue, crawl_queue, pages, visited_urls, robot_parsers,
                   domain_last_access, wlocals, sleep, plocals, ghosts, env>>
    /\ UNCHANGED searching

\* stop_crawling
stop_crawling ==
    /\ running' = FALSE
    /\ UNCHANGED <<lock, dbQueue, crawl_queue, pages, visited_urls, robot_parsers,
                   domain_last_access, pc, wlocals, sleep, plocals, ghosts, env>>
    /\ UNCHANGED searching

\* an outside thread calls crawler.add_url_to_queue(u, p); line 96 returns at
\* once if not url or url in self.visited_urls
ExternalPush ==
    \E e \in Pushers, u \in URLs \cup {EmptyUrl}, p \in PushPriorities :
        /\ pc[e] = "idle"
        /\ extPushes < MaxExtPush
        /\ extPushes' = extPushes + 1
        /\ IF u = EmptyUrl \/ u \in visited_urls
           THEN UNCHANGED <<pc, plocals>>
           ELSE /\ pc' = [pc EXCEPT ![e] = "push_acquire"]
                /\ pushUrl' = [pushUrl EXCEPT ![e] = u]
                /\ pushPrio' = [pushPrio EXCEPT ![e] = p]
        /\ UNCHANGED <<running, lock, dbQueue, crawl_queue, pages, visited_urls,
                       robot_parsers, domain_last_access, wlocals, sleep, ghosts,
                       faults>>
    /\ UNCHANGED searching

\* a thread that lets time pass: it sleeps, or waits for a robots.txt or a page
Waiting(t) ==
    \/ sleep[t] > 0
    \/ pc[t] \in {"gd_read", "cf_read", "cp_resp"}

\* one tick of the clock passes
Older(a) == IF a = Absent \/ a >= AgeCap THEN a ELSE a + 1
Tick ==
    /\ \/ \E t \in Threads : Waiting(t)
       \/ \A t \in Threads : pc[t] = "idle"
    /\ domain_last_access' = [d \in Domains |-> Older(domain_last_access[d])]
    /\ fetchAge' = [d \in Domains |-> Older(fetchAge[d])]
    /\ sleep' = [t \in Threads |-> IF sleep[t] > 0 THEN sleep[t] - 1 ELSE 0]
    /\ UNCHANGED <<running, lock, dbQueue, crawl_queue, pages, visited_urls,
                   robot_parsers, pc, wlocals, plocals, fetchCount, env>>
    /\ UNCHANGED searching

\* ------------------------------------------------------------ add_url_to_queue

\* the call returns to its caller: the worker's for loop, or the outside thread
PushReturn(t) ==
    /\ pc' = [pc EXCEPT ![t] = IF t \in Workers THEN "links_loop" ELSE "idle"]
    /\ links' = IF t \in Workers THEN [links EXCEPT ![t] = Tail(@)] ELSE links
    /\ pushUrl' = [pushUrl EXCEPT ![t] = NoUrl]
    /\ pushPrio' = [pushPrio EXCEPT ![t] = 0]

\* lines 99-111: with self.lock (threading.Lock, not reentrant): the insert, the
\* commit and the put, after which the with block releases the lock; or the
\* OperationalError handler, which begins time.sleep(1) with the lock held; or
\* the handler of any other exception, which passes
add_url_to_queue(t) ==
    /\ pc[t] = "push_acquire"
    /\ lock = NoThread
    /\ \E outcome \in Outcomes :
          /\ Failed(outcome)
          /\ \/ /\ outcome = "ok"
                /\ dbQueue' = InsertOrIgnore(dbQueue, pushUrl[t], pushPrio[t])
                /\ crawl_queue' = QueuePut(crawl_queue, pushPrio[t], pushUrl[t])
                /\ PushReturn(t)
                /\ UNCHANGED <<lock, sleep>>
             \/ /\ outcome = "locked"
                /\ lock' = t
                /\ sleep' = [sleep EXCEPT ![t] = Ticks(BackoffSeconds)]
                /\ pc' = [pc EXCEPT ![t] = "push_sleep"]
                /\ UNCHANGED <<dbQueue, crawl_queue, links, plocals>>
             \/ /\ outcome = "error"
                /\ PushReturn(t)
                /\ UNCHANGED <<dbQueue, crawl_queue, lock, sleep>>
    /\ UNCHANGED <<running, pages, visited_urls, robot_parsers, domain_last_access,
                   url, priority, retry_count, time_passed, ghosts, extPushes>>
    /\ UNCHANGED searching

\* lines 108-109: after time.sleep(1) the method calls itself with the lock
\* still held.  Line 96 of the inner call returns if the url has been visited
\* meanwhile, and the outer with block then releases the lock; otherwise the
\* inner call goes to line 99 and waits for the lock its own thread holds.
add_url_retry(t) ==
    /\ pc[t] = "push_sleep"
    /\ sleep[t] = 0
    /\ IF pushUrl[t] \in visited_urls
       THEN /\ lock' = NoThread
            /\ PushReturn(t)
       ELSE /\ pc' = [pc EXCEPT ![t] = "push_acquire"]
            /\ UNCHANGED <<lock, links, plocals>>
    /\ UNCHANGED <<running, dbQueue, crawl_queue, pages, visited_urls, robot_parsers,
                   domain_last_access, url, priority, retry_count, time_passed,
                   sleep, ghosts, env>>
    /\ UNCHANGED searching

\* ------------------------------------------------------------ crawl_worker

\* line 194: while self.running; lines 197-199 reset the locals
worker_loop(w) ==
    /\ pc[w] = "loop"
    /\ IF running
       THEN pc' = [pc EXCEPT ![w] = "pop"]
       ELSE pc' = [pc EXCEPT ![w] = "idle"]
    /\ url' = [url EXCEPT ![w] = NoUrl]
    /\ priority' = [priority EXCEPT ![w] = 0]
    /\ retry_count' = [retry_count EXCEPT ![w] = 0]
    /\ UNCHANGED <<shared, links, time_passed, sleep, plocals>>
    /\ UNCHANGED searching

\* lines 220-225: what the loop does with the url the retry loop has left
AfterPop(w, u) ==
    IF u = NoUrl
    THEN /\ pc' = [pc EXCEPT ![w] = "empty_sleep"]
         /\ sleep' = [sleep EXCEPT ![w] = Ticks(BackoffSeconds)]
    ELSE /\ pc' = [pc EXCEPT ![w] = "visit_check"]
         /\ UNCHANGED sleep

\* lines 213-216: the OperationalError handler of the pop
PopBackoff(w) ==
    /\ retry_count' = [retry_count EXCEPT ![w] = @ + 1]
    /\ sleep' = [sleep EXCEPT ![w] = Ticks(BackoffSeconds)]
    /\ pc' = [pc EXCEPT ![w] = "pop_sleep"]

\* lines 201-218: with self.lock: the SELECT, the assignment of url and
\* priority, the DELETE and the commit; the with block releases the lock before
\* the handlers run.  sel and del are the outcomes of the two statements.
pop(w) ==
    /\ pc[w] = "pop"
    /\ lock = NoThread
    /\ \E sel \in Outcomes, del \in Outcomes :
          /\ Failed(IF sel = "ok" THEN del ELSE sel)
          /\ \/ /\ sel = "locked"
                /\ del = "ok"
                /\ PopBackoff(w)
                /\ UNCHANGED <<dbQueue, url, priority>>
             \/ /\ sel = "error"
                /\ del = "ok"
                /\ AfterPop(w, url[w])
                /\ UNCHANGED <<dbQueue, url, priority, retry_count>>
             \/ /\ sel = "ok"
                /\ dbQueue = <<>>
                /\ del = "ok"
                /\ AfterPop(w, url[w])
                /\ UNCHANGED <<dbQueue, url, priority, retry_count>>
             \/ /\ sel = "ok"
                /\ dbQueue # <<>>
                /\ url' = [url EXCEPT ![w] = SelectFirst(dbQueue).url]
                /\ priority' = [priority EXCEPT ![w] = SelectFirst(dbQueue).priority]
                /\ \/ /\ del = "ok"
                      /\ dbQueue' = DeleteUrl(dbQueue, SelectFirst(dbQueue).url)
                      /\ AfterPop(w, url'[w])
                      /\ UNCHANGED retry_count
                   \/ /\ del = "locked"
                      /\ PopBackoff(w)
                      /\ UNCHANGED dbQueue
                   \/ /\ del = "error"
                      /\ AfterPop(w, url'[w])
                      /\ UNCHANGED <<dbQueue, retry_count>>
    /\ UNCHANGED <<running, lock, crawl_queue, pages, visited_urls, robot_parsers,
                   domain_last_access, links, time_passed, plocals, ghosts, extPushes>>
    /\ UNCHANGED searching

\* line 216 then line 201: after time.sleep(1), while retry_count < 3
pop_retry(w) ==
    /\ pc[w] = "pop_sleep"
    /\ sleep[w] = 0
    /\ IF retry_count[w] < MaxRetry
       THEN /\ pc' = [pc EXCEPT ![w] = "pop"]
            /\ UNCHANGED sleep
       ELSE AfterPop(w, url[w])
    /\ UNCHANGED <<shared, wlocals, plocals>>
    /\ UNCHANGED searching

\* lines 222-223: time.sleep(1); continue
empty_wake(w) ==
    /\ pc[w] = "empty_sleep"
    /\ sleep[w] = 0
    /\ pc' = [pc EXCEPT ![w] = "loop"]
    /\ UNCHANGED <<shared, wlocals, sleep, plocals>>
    /\ UNCHANGED searching

\* a loop that crawls whatever it pops
visit_check_always(w) ==
    /\ pc[w] = "visit_check"
    /\ pc' = [pc EXCEPT ![w] = "visit_add"]
    /\ UNCHANGED <<shared, wlocals, sleep, plocals>>
    /\ UNCHANGED searching

\* line 225: if url not in self.visited_urls (else line 235, the short pause)
visit_check(w) ==
    /\ pc[w] = "visit_check"
    /\ IF url[w] \notin visited_urls
       THEN pc' = [pc EXCEPT ![w] = "visit_add"]
       ELSE pc' = [pc EXCEPT ![w] = "loop"]
    /\ UNCHANGED <<shared, wlocals, sleep, plocals>>
    /\ UNCHANGED searching

\* a for loop that pushes the links at the priority of their page
links_loop_same_priority(w) ==
    /\ pc[w] = "links_loop"
    /\ IF links[w] = <<>>
       THEN /\ pc' = [pc EXCEPT ![w] = "loop"]
            /\ UNCHANGED <<links, plocals>>
       ELSE IF Head(links[w]) \in visited_urls
       THEN /\ links' = [links EXCEPT ![w] = Tail(@)]
            /\ UNCHANGED <<pc, plocals>>
       ELSE /\ pc' = [pc EXCEPT ![w] = "push_acquire"]
            /\ pushUrl' = [pushUrl EXCEPT ![w] = Head(links[w])]
            /\ pushPrio' = [pushPrio EXCEPT ![w] = priority[w]]
            /\ UNCHANGED links
    /\ UNCHANGED <<shared, url, priority, retry_count, time_passed, sleep>>
    /\ UNCHANGED searching

\* lines 230-232: for link in links: if link not in self.visited_urls:
\* self.add_url_to_queue(link, priority + 1), whose line 96 tests the same set
\* again at once; after the loop, line 235
links_loop(w) ==
    /\ pc[w] = "links_loop"
    /\ IF links[w] = <<>>
       THEN /\ pc' = [pc EXCEPT ![w] = "loop"]
            /\ UNCHANGED <<links, plocals>>
       ELSE IF Head(links[w]) \in visited_urls
       THEN /\ links' = [links EXCEPT ![w] = Tail(@)]
            /\ UNCHANGED <<pc, plocals>>
       ELSE /\ pc' = [pc EXCEPT ![w] = "push_acquire"]
            /\ pushUrl' = [pushUrl EXCEPT ![w] = Head(links[w])]
            /\ pushPrio' = [pushPrio EXCEPT ![w] = priority[w] + 1]
            /\ UNCHANGED links
    /\ UNCHANGED <<shared, url, priority, retry_count, time_passed, sleep>>
    /\ UNCHANGED searching

\* lines 237-238: except Exception: time.sleep(5), then the loop goes on
cooldown_wake(w) ==
    /\ pc[w] = "cooldown"
    /\ sleep[w] = 0
    /\ pc' = [pc EXCEPT ![w] = "loop"]
    /\ UNCHANGED <<shared, wlocals, sleep, plocals>>
    /\ UNCHANGED searching

\* ------------------------------------------------------------ crawl_page

\* a return that hands over the links of the page whatever the fetch gave
ReturnPageLinks(w, ls) ==
    /\ links' = [links EXCEPT ![w] = PageLinks(url[w])]
    /\ pc' = [pc EXCEPT ![w] = "links_loop"]

\* return links, back in crawl_worker at line 230
ReturnLinks(w, ls) ==
    /\ links' = [links EXCEPT ![w] = ls]
    /\ pc' = [pc EXCEPT ![w] = "links_loop"]

\* lines 130-132 once get_robot_parser has returned rp: time.sleep for the rest
StartDelay(w, rp, passed) ==
    /\ sleep' = [sleep EXCEPT ![w] =
                    SleepNeeded(GetCrawlDelay(rp, netloc(url[w])), passed)]
    /\ pc' = [pc EXCEPT ![w] = "cp_stamp"]

\* line 226: self.visited_urls.add(url); then crawl_page, lines 124-132:
\* urlparse(url) raises ValueError on a malformed url, which only line 237
\* catches; if the domain has a last access, time_passed is taken and
\* get_crawl_delay asks get_robot_parser, which reads robots.txt unless the
\* domain is cached (line 69)
visit_add(w) ==
    /\ pc[w] = "visit_add"
    /\ visited_urls' = visited_urls \cup {url[w]}
    /\ IF url[w] \in Malformed
       THEN /\ pc' = [pc EXCEPT ![w] = "cooldown"]
            /\ sleep' = [sleep EXCEPT ![w] = Ticks(CooldownSeconds)]
            /\ UNCHANGED time_passed
       ELSE IF domain_last_access[netloc(url[w])] = Absent
       THEN /\ pc' = [pc EXCEPT ![w] = "cp_stamp"]
            /\ UNCHANGED <<sleep, time_passed>>
       ELSE IF robot_parsers[netloc(url[w])] # "unset"
       THEN /\ StartDelay(w, robot_parsers[netloc(url[w])],
                          domain_last_access[netloc(url[w])])
            /\ UNCHANGED time_passed
       ELSE /\ pc' = [pc EXCEPT ![w] = "gd_read"]
            /\ time_passed' = [time_passed EXCEPT ![w] =
                                  domain_last_access[netloc(url[w])]]
            /\ UNCHANGED sleep
    /\ UNCHANGED <<running, lock, dbQueue, crawl_queue, pages, robot_parsers,
                   domain_last_access, url, priority, retry_count, links,
                   plocals, ghosts, env>>
    /\ UNCHANGED searching

\* lines 72-78 under get_crawl_delay: rp.read() ends, the parser or None is
\* cached and returned
gd_read(w) ==
    /\ pc[w] = "gd_read"
    /\ \E rp \in RobotsOutcomes :
          /\ robot_parsers' = [robot_parsers EXCEPT ![netloc(url[w])] = rp]
          /\ StartDelay(w, rp, time_passed[w])
    /\ time_passed' = [time_passed EXCEPT ![w] = 0]
    /\ UNCHANGED <<running, lock, dbQueue, crawl_queue, pages, visited_urls,
                   domain_last_access, url, priority, retry_count, links,
                   plocals, ghosts, env>>
    /\ UNCHANGED searching

\* lines 138-145 once get_robot_parser has returned rp: if not can_fetch,
\* return []; else requests.get(url, ...) is issued
CheckRobots(w, rp) ==
    IF CanFetch(rp, url[w])
    THEN /\ pc' = [pc EXCEPT ![w] = "cp_resp"]
         /\ fetchAge' = [fetchAge EXCEPT ![netloc(url[w])] = 0]
         /\ fetchCount' = [fetchCount EXCEPT ![url[w]] = IF @ < 2 THEN @ + 1 ELSE @]
         /\ UNCHANGED links
    ELSE /\ ReturnLinks(w, <<>>)
         /\ UNCHANGED ghosts

\* line 135: self.domain_last_access[domain] = time.time(), once the sleep of
\* line 132 is over; then can_fetch asks get_robot_parser (line 69)
cp_stamp(w) ==
    /\ pc[w] = "cp_stamp"
    /\ sleep[w] = 0
    /\ domain_last_access' = [domain_last_access EXCEPT ![netloc(url[w])] = 0]
    /\ IF robot_parsers[netloc(url[w])] # "unset"
       THEN CheckRobots(w, robot_parsers[netloc(url[w])])
       ELSE /\ pc' = [pc EXCEPT ![w] = "cf_read"]
            /\ UNCHANGED <<links, ghosts>>
    /\ UNCHANGED <<running, lock, dbQueue, crawl_queue, pages, visited_urls,
                   robot_parsers, url, priority, retry_count, time_passed,
                   sleep, plocals, env>>
    /\ UNCHANGED searching

\* lines 72-78 under can_fetch
cf_read(w) ==
    /\ pc[w] = "cf_read"
    /\ \E rp \in RobotsOutcomes :
          /\ robot_parsers' = [robot_parsers EXCEPT ![netloc(url[w])] = rp]
          /\ CheckRobots(w, rp)
    /\ UNCHANGED <<running, lock, dbQueue, crawl_queue, pages, visited_urls,
                   domain_last_access, url, priority, retry_count, time_passed,
                   sleep, plocals, env>>
    /\ UNCHANGED searching

\* lines 145-157 and 181-184: requests.get raises (transport failure, timeout),
\* or it returns and line 146 stamps the domain; then a status other than 200
\* returns [], a failure of the parse is caught and returns [], and a parsed
\* page goes to the store
cp_resp(w) ==
    /\ pc[w] = "cp_resp"
    /\ \E outcome \in {"raise", "non200", "parse_error", "ok200"} :
          \/ /\ outcome = "raise"
             /\ ReturnLinks(w, <<>>)
             /\ UNCHANGED <<domain_last_access, retry_count>>
          \/ /\ outcome \in {"non200", "parse_error"}
             /\ domain_last_access' = [domain_last_access EXCEPT ![netloc(url[w])] = 0]
             /\ ReturnLinks(w, <<>>)
             /\ UNCHANGED retry_count
          \/ /\ outcome = "ok200"
             /\ domain_last_access' = [domain_last_access EXCEPT ![netloc(url[w])] = 0]
             /\ retry_count' = [retry_count EXCEPT ![w] = 0]
             /\ pc' = [pc EXCEPT ![w] = "up_acquire"]
             /\ UNCHANGED links
    /\ UNCHANGED <<running, lock, dbQueue, crawl_queue, pages, visited_urls,
                   robot_parsers, url, priority, time_passed, sleep, plocals,
                   ghosts, env>>
    /\ UNCHANGED searching

\* lines 161-179: while retry_count < 3: with self.lock: INSERT OR REPLACE and
\* commit, then break and return the links; on OperationalError retry_count += 1
\* and time.sleep(1) begins inside the with block; any other exception breaks
upsert(w) ==
    /\ pc[w] = "up_acquire"
    /\ lock = NoThread
    /\ \E outcome \in Outcomes :
          /\ Failed(outcome)
          /\ \/ /\ outcome = "ok"
                /\ pages' = InsertOrReplace(pages, url[w], fetchCount[url[w]])
                /\ ReturnLinks(w, PageLinks(url[w]))
                /\ UNCHANGED <<lock, retry_count, sleep>>
             \/ /\ outcome = "locked"
                /\ lock' = w
                /\ retry_count' = [retry_count EXCEPT ![w] = @ + 1]
                /\ sleep' = [sleep EXCEPT ![w] = Ticks(BackoffSeconds)]
                /\ pc' = [pc EXCEPT ![w] = "up_sleep"]
                /\ UNCHANGED <<pages, links>>
             \/ /\ outcome = "error"
                /\ ReturnLinks(w, PageLinks(url[w]))
                /\ UNCHANGED <<pages, lock, retry_count, sleep>>
    /\ UNCHANGED <<running, dbQueue, crawl_queue, visited_urls, robot_parsers,
                   domain_last_access, url, priority, time_passed, plocals,
                   ghosts, extPushes>>
    /\ UNCHANGED searching

\* line 173 ends: the with block is left, then line 161 tests retry_count
up_retry(w) ==
    /\ pc[w] = "up_sleep"
    /\ sleep[w] = 0
    /\ lock' = NoThread
    /\ IF retry_count[w] < MaxRetry
       THEN /\ pc' = [pc EXCEPT ![w] = "up_acquire"]
            /\ UNCHANGED links
       ELSE ReturnLinks(w, PageLinks(url[w]))
    /\ UNCHANGED <<running, dbQueue, crawl_queue, pages, visited_urls, robot_parsers,
                   domain_last_access, url, priority, retry_count, time_passed,
                   sleep, plocals, ghosts, env>>
    /\ UNCHANGED searching

\* ------------------------------------------------------------ simple_search

\* Text is a sequence of characters.  The words and pages of the searches:
Sp == <<" ">>
Wcat == <<"c", "a", "t">>
Wcats == <<"c", "a", "t", "s">>
WCats == <<"C", "a", "t", "s">>
Wdogs == <<"d", "o", "g", "s">>
Wand == <<"a", "n", "d">>
Wthe == <<"t", "h", "e">>
Wmark == <<"?">>

\* the pages P1 and P2 of the ranking example, and three more
P1 == [url |-> <<"a">>, title |-> Wcats \o Sp \o Wand \o Sp \o Wdogs,
       content |-> Wdogs]
P2 == [url |-> <<"b">>, title |-> Wdogs,
       content |-> Wcats \o Sp \o Wcats \o Sp \o Wdogs]
P3 == [url |-> Wcats, title |-> WCats, content |-> <<>>]
P4 == [url |-> <<"c">>, title |-> <<>>, content |-> Wthe]
P5 == [url |-> <<"d">>, title |-> <<>>, content |-> <<"c", "o", "n">> \o Wcat]
StoredPages == {P1, P2, P3, P4, P5}

\* the tokens word_tokenize finds in the queries
Tokens == {Wcat, Wcats, WCats, Wdogs, Wthe, Wmark}

\* stopwords.words('english'), as far as the tokens go
stop_words == {Wthe, Wand}

\* str.lower
LowerChar(c) == IF c = "C" THEN "c" ELSE IF c = "D" THEN "d" ELSE c
Lower(text) == [i \in 1..Len(text) |-> LowerChar(text[i])]

\* str.isalnum
AlnumChars == {"a", "c", "d", "e", "g", "h", "n", "o", "s", "t", "C", "D"}
IsAlnum(word) == word # <<>> /\ \A i \in 1..Len(word) : word[i] \in AlnumChars

\* line 23: the words that are alphanumeric and no stop word, in lower case
RECURSIVE extract_keywords(_)
extract_keywords(words) ==
    IF words = <<>> THEN <<>>
    ELSE IF IsAlnum(Head(words)) /\ Lower(Head(words)) \notin stop_words
    THEN <<Lower(Head(words))>> \o extract_keywords(Tail(words))
    ELSE extract_keywords(Tail(words))

\* str.count(kw): the occurrences of kw in text that do not overlap, from i on
RECURSIVE CountFrom(_, _, _)
CountFrom(text, kw, i) ==
    IF i + Len(kw) - 1 > Len(text) THEN 0
    ELSE IF SubSeq(text, i, i + Len(kw) - 1) = kw
    THEN 1 + CountFrom(text, kw, i + Len(kw))
    ELSE CountFrom(text, kw, i + 1)
Count(text, kw) == CountFrom(text, kw, 1)

\* column LIKE '%kw%', which ignores the case of ASCII letters
Like(text, kw) == Count(Lower(text), Lower(kw)) > 0

\* the WHERE clause of lines 271-279
WhereMatches(row, keywords) ==
    \E i \in 1..Len(keywords) :
        \/ Like(row.title, keywords[i])
        \/ Like(row.content, keywords[i])
        \/ Like(row.url, keywords[i])

\* c.fetchall(): the matching rows in the order of the table
RECURSIVE Select(_, _)
Select(rows, keywords) ==
    IF rows = <<>> THEN <<>>
    ELSE IF WhereMatches(Head(rows), keywords)
    THEN <<Head(rows)>> \o Select(Tail(rows), keywords)
    ELSE Select(Tail(rows), keywords)

\* a score that counts every occurrence once
rank_unweighted(row, keywords) ==
    LET RECURSIVE Sum(_)
        Sum(i) == IF i = 0 THEN 0
                  ELSE Sum(i - 1)
                       + Count(Lower(row.title), keywords[i])
                       + Count(Lower(row.url), keywords[i])
                       + Count(Lower(row.content), keywords[i])
    IN Sum(Len(keywords))

\* lines 283-295
rank_result(row, keywords) ==
    LET RECURSIVE Sum(_)
        Sum(i) == IF i = 0 THEN 0
                  ELSE Sum(i - 1)
                       + Count(Lower(row.title), keywords[i]) * 3
                       + Count(Lower(row.url), keywords[i]) * 2
                       + Count(Lower(row.content), keywords[i])
    IN Sum(Len(keywords))

\* sorted(results, key=rank_result, reverse=True): the sort is stable, so rows
\* of equal score keep the order of the table
RECURSIVE SortedByRank(_, _)
SortedByRank(rows, keywords) ==
    IF rows = <<>> THEN <<>>
    ELSE LET best == CHOOSE i \in 1..Len(rows) :
                        /\ \A j \in 1..Len(rows) :
                              rank_result(rows[j], keywords) <= rank_result(rows[i], keywords)
                        /\ \A j \in 1..(i - 1) :
                              rank_result(rows[j], keywords) < rank_result(rows[i], keywords)
             rest == [j \in 1..(Len(rows) - 1) |->
                         IF j < best THEN rows[j] ELSE rows[j + 1]]
         IN <<rows[best]>> \o SortedByRank(rest, keywords)

\* the elements of a sequence
Range(seq) == {seq[i] : i \in 1..Len(seq)}

\* seq[:n] for n >= 0
Truncate(seq, n) == SubSeq(seq, 1, IF n < Len(seq) THEN n ELSE Len(seq))

\* simple_search(query, db_conn, limit): [] without a SELECT when there is no
\* keyword; else the SELECT, which succeeds (at once or after a retry), or is
\* locked on each of the 3 attempts, or fails otherwise, and then []
simple_search ==
    /\ search_pc = "call"
    /\ search_pc' = "done"
    /\ LET keywords == extract_keywords(query) IN
          IF keywords = <<>>
          THEN /\ results' = <<>>
               /\ db_read' = FALSE
          ELSE /\ db_read' = TRUE
               /\ \E outcome \in {"ok", "locked", "error"} :
                     results' = IF outcome = "ok"
                                THEN Truncate(SortedByRank(Select(page_rows, keywords),
                                                           keywords), limit)
                                ELSE <<>>
    /\ UNCHANGED <<query, limit, page_rows>>
    /\ UNCHANGED crawling

\* ------------------------------------------------------------ specifications

\* The steps of the only crawl_worker loop.  Its crawl_page finds the domain's
\* robots.txt cached whenever the domain has a last access, because can_fetch
\* (line 138) has cached it in the call that made the first stamp, so the read
\* under get_crawl_delay (gd_read) happens only with several loops.
WorkerStep(w) ==
    \/ worker_loop(w) \/ pop(w) \/ pop_retry(w) \/ empty_wake(w)
    \/ visit_check(w) \/ visit_add(w) \/ links_loop(w) \/ cooldown_wake(w)
    \/ cp_stamp(w) \/ cf_read(w) \/ cp_resp(w)
    \/ upsert(w) \/ up_retry(w)

PushStep(t) == add_url_to_queue(t) \/ add_url_retry(t)

ThreadStep(t) == (t \in Workers /\ WorkerStep(t)) \/ PushStep(t)

\* start_crawling called while no crawl_worker loop is alive
StartWhenStopped ==
    /\ \A w \in Workers : ~Active(w)
    /\ start_crawling

\* One crawl_worker loop at a time, outside threads that push, start and stop,
\* and storage statements that may fail.
Next ==
    \/ StartWhenStopped
    \/ stop_crawling
    \/ ExternalPush
    \/ Tick
    \/ \E w \in Workers : WorkerStep(w)
    \/ \E t \in Threads : PushStep(t)

Spec == Init /\ [][Next]_vars

\* The threads are scheduled fairly and time passes; the outside callers may
\* stop calling.
FairSpec ==
    /\ Spec
    /\ WF_vars(Tick)
    /\ \A t \in Threads : WF_vars(ThreadStep(t))

\* a storage statement of the step does not fail
NoFault == faults' = faults

\* The steps of a worker that have no storage statement
WorkerStepNoStore(w) ==
    \/ worker_loop(w) \/ empty_wake(w)
    \/ visit_check(w) \/ visit_add(w) \/ links_loop(w) \/ cooldown_wake(w)
    \/ gd_read(w) \/ cp_stamp(w) \/ cf_read(w) \/ cp_resp(w)

\* start_crawling at any time, so that several crawl_worker loops run on the
\* one crawler; no storage statement fails.
NextConcurrent ==
    \/ start_crawling
    \/ stop_crawling
    \/ ExternalPush
    \/ Tick
    \/ \E w \in Workers : WorkerStepNoStore(w)
    \/ \E w \in Workers : pop(w) /\ NoFault
    \/ \E w \in Workers : upsert(w) /\ NoFault
    \/ \E t \in Threads : add_url_to_queue(t) /\ NoFault

SpecConcurrent == Init /\ [][NextConcurrent]_vars

\* the largest limit, the longest query and the largest table of the searches
MaxLimit == 3
MaxQueryLen == 2
MaxRows == 3

\* the sequences over S of length at most n
RECURSIVE SeqsUpTo(_, _)
SeqsUpTo(S, n) ==
    IF n = 0 THEN {<<>>}
    ELSE LET shorter == SeqsUpTo(S, n - 1)
         IN shorter \cup {Append(q, x) : q \in shorter, x \in S}

\* a table holds a url once (url is the PRIMARY KEY of pages)
DistinctUrls(rows) ==
    \A i \in 1..Len(rows), j \in 1..Len(rows) : i # j => rows[i].url # rows[j].url

\* a simple_search call with some query and limit over some pages table
InitSearch ==
    /\ CrawlerInit
    /\ query \in SeqsUpTo(Tokens, MaxQueryLen)
    /\ limit \in 0..MaxLimit
    /\ page_rows \in {rows \in SeqsUpTo(StoredPages, MaxRows) : DistinctUrls(rows)}
    /\ results = <<>>
    /\ search_pc = "call"
    /\ db_read = FALSE

NextSearch == simple_search

SpecSearch == InitSearch /\ [][NextSearch]_vars

\* ------------------------------------------------------------ properties

\* number of (priority, url) entries of the in-memory queue for url u
Puts(u) ==
    LET entries == {e \in BagToSet(crawl_queue) : e[2] = u}
        RECURSIVE Sum(_)
        Sum(S) == IF S = {} THEN 0
                  ELSE LET e == CHOOSE x \in S : TRUE
                       IN CopiesIn(e, crawl_queue) + Sum(S \ {e})
    IN Sum(entries)

\* thread t ends an add_url_to_queue call whose insert and commit succeeded
PushCommits(t) ==
    /\ pc[t] = "push_acquire"
    /\ pc'[t] # pc[t]
    /\ faults' = faults

\* C1: after any sequence of pushes and pops a url has at most one row in the
\* crawl_queue table, and a push whose insert commits leaves exactly one row
\* for its url (so do two such pushes in a row).
C1_FrontierUnique ==
    [][/\ \A u \in URLs : CountUrl(dbQueue', u) <= 1
       /\ \A t \in Threads :
             PushCommits(t) => CountUrl(dbQueue', pushUrl[t]) = 1]_vars

\* C1 witness: some url has been put twice by committed pushes and has one row
C1_Witness ==
    \E u \in URLs : Puts(u) >= 2 /\ CountUrl(dbQueue, u) = 1

\* the retry loop of lines 201-218 hands a url to line 225
PopReturns(w) == pc[w] \in {"pop", "pop_sleep"} /\ pc'[w] = "visit_check"

\* C2: a pop that returns an entry returns the first row under (priority,
\* added_at) and deletes that row in the same step, under the lock; a pop on
\* an empty table returns nothing and leaves the table as it is.
C2_PopRemovesMin ==
    [][\A w \in Workers :
          /\ PopReturns(w) =>
                /\ pc[w] = "pop"
                /\ dbQueue # <<>>
                /\ url'[w] = SelectFirst(dbQueue).url
                /\ priority'[w] = SelectFirst(dbQueue).priority
                /\ dbQueue' = DeleteUrl(dbQueue, url'[w])
          /\ (pc[w] = "pop" /\ pc'[w] = "empty_sleep") => dbQueue' = dbQueue]_vars

\* C2 witness: the worker holds a popped priority-0 url, its row is gone and
\* the rows left in the table all have priority 1 or more
C2_Witness ==
    \E w \in Workers :
        /\ pc[w] = "visit_check"
        /\ priority[w] = 0
        /\ ~HasUrl(dbQueue, url[w])
        /\ dbQueue # <<>>
        /\ \A i \in 1..Len(dbQueue) : dbQueue[i].priority >= 1

\* worker w issues requests.get (line 145)
GetIssued(w) == pc[w] \in {"cp_stamp", "cf_read"} /\ pc'[w] = "cp_resp"

\* the delay window of domain d has passed since the last requests.get to d
WindowPassed(d) ==
    \/ fetchAge[d] = Absent
    \/ fetchAge[d] >= GetCrawlDelay(robot_parsers'[d], d)

\* C3: with one crawl_worker loop, a requests.get to a domain is issued only
\* when the crawl delay of the domain (its robots delay, else 5 seconds) has
\* passed since the previous requests.get to that domain.
C3_DelayBetweenFetches ==
    [][\A w \in Workers : GetIssued(w) => WindowPassed(netloc(url[w]))]_vars

\* C3 witness: a second requests.get to a domain has been issued
C3_Witness ==
    \E w \in Workers :
        /\ pc[w] = "cp_resp"
        /\ \E u \in URLs \ {url[w]} : netloc(u) = netloc(url[w]) /\ fetchCount[u] = 1

\* C4: with several crawl_worker loops, a worker issues a requests.get to a
\* domain while the requests.get of another worker to that domain is under
\* way only when the delay window of the domain has passed.
C4_NoFetchInsideWindow ==
    [][\A w \in Workers :
          (/\ GetIssued(w)
           /\ \E v \in Workers \ {w} :
                 pc[v] = "cp_resp" /\ netloc(url[v]) = netloc(url[w]))
              => WindowPassed(netloc(url[w]))]_vars

\* C4 witness: two workers have a requests.get to the same domain under way
C4_Witness ==
    \E w \in Workers, v \in Workers :
        /\ w # v
        /\ pc[w] = "cp_resp"
        /\ pc[v] = "cp_resp"
        /\ netloc(url[w]) = netloc(url[v])

\* C5: with one crawl_worker loop, requests.get is issued at most once per url
C5_FetchOnce == \A u \in URLs : fetchCount[u] <= 1

\* C5 witness: the worker has popped a url that was fetched before and is
\* already in visited_urls, and is about to skip it
C5_Witness ==
    \E w \in Workers :
        /\ pc[w] = "visit_check"
        /\ url[w] \in visited_urls
        /\ fetchCount[url[w]] = 1

\* a url that the robots.txt read into the cache of its domain disallows
Disallowed(u) ==
    /\ u \notin Malformed
    /\ robot_parsers[netloc(u)] = "rp"
    /\ u \in RobotsFile(netloc(u)).disallow

\* C6: for a url that the cached robots.txt of its domain disallows no requests.get has
\* been issued, the pages table has no row, no worker is in the get or the
\* upsert, and the crawl_page call that finds it disallowed returns no links.
C6_DisallowedNeverStored ==
    [][/\ \A u \in URLs :
             Disallowed(u)' =>
                 /\ fetchCount'[u] = 0
                 /\ \A r \in pages' : r.url # u
                 /\ \A w \in Workers :
                       url'[w] = u => pc'[w] \notin {"cp_resp", "up_acquire", "up_sleep"}
       /\ \A w \in Workers :
             (pc[w] \in {"cp_stamp", "cf_read"} /\ pc'[w] # pc[w] /\ Disallowed(url[w])')
                 => (pc'[w] = "links_loop" /\ links'[w] = <<>>)]_vars

\* C6 witness: crawl_page has just returned for a url the robots.txt of its
\* domain disallows, with no links
C6_Witness ==
    \E w \in Workers :
        /\ pc[w] = "links_loop"
        /\ url[w] \notin Malformed
        /\ Disallowed(url[w])
        /\ links[w] = <<>>
        /\ fetchCount[url[w]] = 0

\* the back-off sleeps of the three storage operations
BackoffStates == {"push_sleep", "pop_sleep", "up_sleep"}

\* C7: when the back-off sleep of a storage operation ends, the operation
\* either makes a further attempt (it has made fewer than 3, and is able to
\* take the lock) or returns; in both cases it does not hold the lock and the
\* two tables are as they were.
C7_RetryThenGiveUp ==
    [][\A t \in Threads :
          (pc[t] \in BackoffStates /\ pc'[t] # pc[t]) =>
              /\ lock' # t
              /\ dbQueue' = dbQueue
              /\ pages' = pages
              /\ (pc'[t] \in {"pop", "up_acquire"} => retry_count[t] < MaxRetry)]_vars

\* C7 witness: the upsert has given up after 3 attempts and crawl_page has
\* returned the links without a row for the url
C7_Witness ==
    \E w \in Workers :
        /\ pc[w] = "links_loop"
        /\ retry_count[w] = MaxRetry
        /\ fetchCount[url[w]] = 1
        /\ \A r \in pages : r.url # url[w]

\* C8: a thread that holds self.lock releases it
C8_LockReleased == \A t \in Threads : (lock = t) ~> (lock # t)

\* C8 witness: a thread holds self.lock in a back-off sleep
C8_Witness == \E t \in Threads : lock = t /\ pc[t] \in BackoffStates

\* where a worker is after a failure: the sleeps of the handlers
FailureStates == {"cooldown", "push_sleep", "pop_sleep", "up_sleep"}

\* C9: after a failure the worker comes back to the head of its loop
C9_WorkerContinues ==
    \A w \in Workers : (pc[w] \in FailureStates) ~> (pc[w] = "loop")

\* C9 witness: the worker is in the sleep of line 238
C9_Witness == \E w \in Workers : pc[w] = "cooldown" /\ running

\* C10: a worker that is past line 194 when stop_crawling has been called pops
\* nothing more, and once running is False every loop ends unless
\* start_crawling is called again.
C10_StopEndsLoop ==
    /\ [][\A w \in Workers : (~running /\ pc[w] = "loop") => pc'[w] # "pop"]_vars
    /\ (~running) ~> (running \/ \A w \in Workers : pc[w] = "idle")

\* C10 witness: stop_crawling was called while a requests.get was under way
C10_Witness == \E w \in Workers : ~running /\ pc[w] = "cp_resp"

\* thread t takes a step of add_url_to_queue past line 96
PushStatement(t) == pc[t] = "push_acquire" /\ pc'[t] # pc[t]

\* C11: a push of a url that is in visited_urls changes neither the crawl_queue
\* table nor the in-memory queue, also when the url is visited while the push
\* is under way.
C11_PushVisitedNoOp ==
    [][\A t \in Threads :
          (PushStatement(t) /\ pushUrl[t] \in visited_urls) =>
              (dbQueue' = dbQueue /\ crawl_queue' = crawl_queue)]_vars

\* C11 witness: a push has passed line 96 and its url has been visited since
C11_Witness ==
    \E t \in Threads : pc[t] = "push_acquire" /\ pushUrl[t] \in visited_urls

\* the INSERT OR REPLACE of worker w commits (lines 165-169)
UpsertCommits(w) ==
    /\ pc[w] = "up_acquire"
    /\ pc'[w] = "links_loop"
    /\ faults' = faults

\* the rows of the pages table for url u
RowsOf(pg, u) == {r \in pg : r.url = u}

\* C12: the pages table has at most one row per url; an upsert that commits
\* leaves exactly one row for its url, the row of that call, also when the url
\* had a row from an earlier crawl, and leaves the rows of other urls as they
\* were.
C12_UpsertIdempotent ==
    [][/\ \A u \in URLs : Cardinality(RowsOf(pages', u)) <= 1
       /\ \A w \in Workers :
             UpsertCommits(w) =>
                 /\ RowsOf(pages', url[w]) =
                        {[url |-> url[w], stamp |-> fetchCount[url[w]]]}
                 /\ \A u \in URLs \ {url[w]} : RowsOf(pages', u) = RowsOf(pages, u)]_vars

\* C12 witness: a url has been crawled and upserted a second time, both calls
\* are over, and it has the one row of the second crawl
C12_Witness ==
    \E u \in URLs :
        /\ fetchCount[u] = 2
        /\ RowsOf(pages, u) = {[url |-> u, stamp |-> 2]}
        /\ \A w \in Workers : url[w] # u

\* the robots.txt of domain d could not be fetched or parsed
ReadFailed(d) == robot_parsers[d] \in {"none", "denied"}

\* C13: once the fetch or the parse of a domain's robots.txt has failed,
\* can_fetch is true for every url of the domain and get_crawl_delay is the
\* default delay, and a crawl_page call for a url of the domain goes on to its
\* requests.get.
C13_RobotsFailOpen ==
    [][/\ \A d \in Domains :
             ReadFailed(d)' =>
                 /\ \A u \in URLs \ Malformed :
                       netloc(u) = d => CanFetch(robot_parsers'[d], u)
                 /\ GetCrawlDelay(robot_parsers'[d], d) = Ticks(crawl_delay)
       /\ \A w \in Workers :
             (/\ pc[w] \in {"cp_stamp", "cf_read"}
              /\ pc'[w] \notin {"cp_stamp", "cf_read"}
              /\ ReadFailed(netloc(url[w]))') => pc'[w] = "cp_resp"]_vars

\* C13 witness: rp.read() raised, None is cached, and a url that the domain's
\* robots.txt would disallow is being fetched
C13_Witness ==
    \E w \in Workers :
        /\ pc[w] = "cp_resp"
        /\ robot_parsers[netloc(url[w])] = "none"
        /\ url[w] \in RobotsFile(netloc(url[w])).disallow

\* the requests.get of worker w ends without a page to store: it raised, the
\* status was not 200, or the parse failed
FetchFails(w) == pc[w] = "cp_resp" /\ pc'[w] \notin {"cp_resp", "up_acquire"}

\* C14: when the requests.get fails or its status is not 200, crawl_page
\* returns [] to line 227 (no exception reaches line 237), the pages table and
\* the crawl_queue are as before, and the for loop of line 230 pushes nothing.
C14_FailedFetchStoresNothing ==
    [][\A w \in Workers :
          /\ FetchFails(w) =>
                /\ pc'[w] = "links_loop"
                /\ links'[w] = <<>>
                /\ pages' = pages
                /\ dbQueue' = dbQueue
                /\ crawl_queue' = crawl_queue
          /\ (pc[w] = "links_loop" /\ links[w] = <<>> /\ pc'[w] # pc[w]) =>
                (pc'[w] = "loop" /\ dbQueue' = dbQueue)]_vars

\* C14 witness: crawl_page has returned [] for a url whose requests.get was
\* issued, and the url has no row
C14_Witness ==
    \E w \in Workers :
        /\ pc[w] = "links_loop"
        /\ links[w] = <<>>
        /\ url[w] \notin Malformed
        /\ fetchCount[url[w]] = 1
        /\ RowsOf(pages, url[w]) = {}

\* the score of a page for a list of keywords: for each keyword 3 per
\* occurrence in the title, 2 per occurrence in the url, 1 per occurrence in
\* the content
RECURSIVE Score(_, _)
Score(row, keywords) ==
    IF keywords = <<>> THEN 0
    ELSE 3 * Count(Lower(row.title), Head(keywords))
         + 2 * Count(Lower(row.url), Head(keywords))
         + Count(Lower(row.content), Head(keywords))
         + Score(row, Tail(keywords))

\* some keyword is a substring of the title, the content or the url
MatchesKeyword(row, keywords) ==
    \E i \in 1..Len(keywords), f \in {row.title, row.content, row.url} :
        Count(Lower(f), keywords[i]) >= 1

\* the places of row in seq
Places(seq, row) == {i \in 1..Len(seq) : seq[i] = row}

\* C15: simple_search returns at most limit rows, each matching a keyword, in
\* order of non-increasing score; a query without keywords gives [] without a
\* SELECT; and for the query "cats dogs" P1 scores 7, P2 scores 6, and P2 is
\* returned only below P1 when the table holds both.
C15_SearchRanking ==
    search_pc = "done" =>
        LET keywords == extract_keywords(query) IN
            /\ Len(results) <= limit
            /\ \A i \in 1..Len(results) :
                  /\ results[i] \in Range(page_rows)
                  /\ MatchesKeyword(results[i], keywords)
            /\ \A i \in 1..Len(results), j \in 1..Len(results) :
                  i < j => Score(results[i], keywords) >= Score(results[j], keywords)
            /\ keywords = <<>> => (results = <<>> /\ ~db_read)
            /\ query = <<Wcats, Wdogs>> =>
                  /\ Score(P1, keywords) = 7
                  /\ Score(P2, keywords) = 6
                  /\ \A j \in Places(results, P2) :
                        Places(page_rows, P1) # {} =>
                            \E i \in Places(results, P1) : i < j

\* C15 witness: the query "cats dogs" over a table that holds P2 before P1 has
\* returned P1 above P2
C15_Witness ==
    /\ search_pc = "done"
    /\ query = <<Wcats, Wdogs>>
    /\ page_rows = <<P2, P1>>
    /\ results = <<P1, P2>>

\* the requests.get of worker w is over, however it ended
GetEnds(w) == pc[w] = "cp_resp" /\ pc'[w] # "cp_resp"

\* C16: when a requests.get is issued the domain has a last-access time, and
\* when the requests.get is over, however it ended, the last-access time of
\* the domain is the time of that moment.
C16_StampBeforeAndAfter ==
    [][\A w \in Workers :
          /\ GetIssued(w) => domain_last_access'[netloc(url[w])] # Absent
          /\ GetEnds(w) => domain_last_access'[netloc(url[w])] = 0]_vars

\* C16 witness: a requests.get that took a tick and gave no page is over and
\* the last access of the domain is newer than the start of the request
C16_Witness ==
    \E w \in Workers :
        /\ pc[w] = "links_loop"
        /\ links[w] = <<>>
        /\ url[w] \notin Malformed
        /\ fetchCount[url[w]] = 1
        /\ fetchAge[netloc(url[w])] >= 1
        /\ domain_last_access[netloc(url[w])] = 0

\* worker w takes a link from the list crawl_page returned (lines 230-231)
TakesLink(w) ==
    /\ pc[w] = "links_loop"
    /\ links[w] # <<>>
    /\ (pc'[w] # pc[w] \/ links'[w] # links[w])

\* the row of url u in the crawl_queue table
RowOf(q, u) == q[CHOOSE i \in 1..Len(q) : q[i].url = u]

\* C17: for each link of the page popped at priority p the worker calls
\* add_url_to_queue(link, p + 1) unless the link is in visited_urls, in which
\* case it pushes nothing; and a row the worker's push creates has a priority
\* greater than p.
C17_LinksOneLevelDown ==
    [][\A w \in Workers :
          /\ TakesLink(w) =>
                IF Head(links[w]) \in visited_urls
                THEN pc'[w] = "links_loop" /\ dbQueue' = dbQueue
                ELSE /\ pc'[w] = "push_acquire"
                     /\ pushUrl'[w] = Head(links[w])
                     /\ pushPrio'[w] = priority[w] + 1
          /\ (PushCommits(w) /\ ~HasUrl(dbQueue, pushUrl[w])) =>
                /\ HasUrl(dbQueue', pushUrl[w])
                /\ RowOf(dbQueue', pushUrl[w]).priority = priority[w] + 1]_vars

\* C17 witness: the worker holds a page popped at priority 1 and the table has
\* a row of priority 2 for one of its links
C17_Witness ==
    \E w \in Workers, i \in 1..Len(dbQueue) :
        /\ pc[w] = "links_loop"
        /\ priority[w] = 1
        /\ dbQueue[i].priority = 2
        /\ dbQueue[i].url \in Range(PageLinks(url[w]))

\* no push, pop or upsert is under way
Quiescent ==
    \A t \in Threads : pc[t] \in {"idle", "loop", "empty_sleep"}

\* the (priority, url) entries of the crawl_queue table
StoredEntries == {<<dbQueue[i].priority, dbQueue[i].url>> : i \in 1..Len(dbQueue)}

\* C18: when no operation is under way, the entries of the in-memory queue
\* are the entries of the crawl_queue table.
C18_MirrorEqualsStorage ==
    Quiescent => BagToSet(crawl_queue) = StoredEntries

\* C18 witness: pushes are over, nothing has been popped, and the in-memory
\* queue holds what the table holds
C18_Witness ==
    /\ Quiescent
    /\ dbQueue # <<>>
    /\ BagToSet(crawl_queue) = StoredEntries

ActiveLoops == {w \in Workers : Active(w)}

\* C20: at most one crawl_worker loop is alive at any time, whatever the
\* sequence of start_crawling and stop_crawling calls.
C20_AtMostOneLoop == Cardinality(ActiveLoops) <= 1

\* C20 witness: two crawl_worker loops are at their pop while running is True
C20_Witness ==
    /\ running
    /\ \E w \in Workers, v \in Workers : w # v /\ pc[w] = "pop" /\ pc[v] = "pop"

\* url u has a row in the crawl_queue table while the crawler is running
Queued(u) == running /\ HasUrl(dbQueue, u)

\* C21: while running stays True, a url that has a row in the crawl_queue
\* table is popped: its row does not stay in the table forever.
C21_EveryEntryPopped ==
    \A u \in URLs : Queued(u) ~> (~running \/ ~HasUrl(dbQueue, u))

\* C21 witness: the running worker has popped a url that was queued, and the
\* row of the url is gone
C21_Witness ==
    \E w \in Workers :
        /\ running
        /\ pc[w] = "visit_check"
        /\ url[w] \in URLs
        /\ CopiesIn(<<priority[w], url[w]>>, crawl_queue) >= 1
        /\ ~HasUrl(dbQueue, url[w])

====
